---- MODULE Spec2Model ----
(***************************************************************************)
(* Model of the label engine of src/label_maker.py (generate_labels,      *)
(* generate_labels_vectorized), of the normalizer of src/preprocess.py     *)
(* (preprocess_data) and of the token exchange of src/data_loader.py       *)
(* (get_jquants_id_token).  Each has its own specification; the variables  *)
(* of the functions a specification does not call stay at their idle       *)
(* values.                                                                 *)
(*                                                                         *)
(* A DataFrame is a sequence of rows (records); positional index idx of    *)
(* the code (0-based) is element idx + 1 of the sequence.  generate_labels *)
(* is a synchronous call without I/O, modelled as one action.              *)
(*                                                                         *)
(* Prices are integers (price ticks) and thresholds are integer percents,  *)
(* so that (max_high - current_price) / current_price >= threshold is      *)
(* decided exactly as (max_high - current_price) * 100 >= threshold *      *)
(* current_price for current_price > 0.  A missing value (NaN) is the      *)
(* distinguished value NaN, which is never used as a number.               *)
(*                                                                         *)
(* A date is the day number of the calendar date a cell denotes; the dtype *)
(* of the date column (datetime64[ns], or object for date strings) is kept *)
(* next to the frame.                                                      *)
(***************************************************************************)
EXTENDS Integers, Sequences, FiniteSets

(* ---------------------------- bounds ---------------------------------- *)
MaxLen == 3

(* ------------------------ value domains ------------------------------- *)
NaN == -999

\* closes: missing, non-positive, positive
CloseValues == {NaN, 0, 100}
\* highs: missing, +18% and +25% over a close of 100
HighValues == {NaN, 118, 125}
\* thresholds in percent: the defaults 0.18 and 0.25
Thresholds == {18, 25}
Windows == {1, 2}
\* raw (not yet normalized) input: any dates, in any order, with repeats
Dates == {1, 2, 3}
DateDtypes == {"datetime64[ns]", "object"}
RawHighValues == {100, 125}

\* a bar; the columns the label engine does not read are held at one value
Bar(d, h, c) ==
  [date |-> d, code |-> 7203, open |-> 100, high |-> h, low |-> 100,
   close |-> c, volume |-> 0]

\* normalized series of n bars: ascending dates, one bar per date
CleanBars(n) ==
  { [i \in 1..n |-> Bar(i, hc[i][1], hc[i][2])] :
      hc \in [1..n -> HighValues \X CloseValues] }

\* raw series of n bars
RawBars(n) ==
  { [i \in 1..n |-> Bar(dh[i][1], dh[i][2], 100)] :
      dh \in [1..n -> Dates \X RawHighValues] }

Args ==
  [strong_buy_threshold: Thresholds, buy_threshold: Thresholds,
   strong_buy_days: Windows, buy_days: Windows]

\* the default thresholds 0.25 and 0.18, any windows
DefaultThresholdArgs ==
  [strong_buy_threshold: {25}, buy_threshold: {18},
   strong_buy_days: Windows, buy_days: Windows]

(* --------------- value domains of preprocess_data --------------------- *)
\* a missing date (NaT); sort_values puts it last (na_position='last')
NaT == 999
\* a cell holding text that is neither a date nor a number
Text == -997

\* raw (open, high, low, close, volume) cells of a bar: consistent prices;
\* high below the other prices; low above the other prices and a negative
\* volume; all cells missing; high as text and other prices than the first
Consistent == <<10, 12, 8, 9, 0>>
HighBelow == <<10, 5, 8, 9, 3>>
LowAbove == <<10, 12, 20, 9, -5>>
Missing == <<NaN, NaN, NaN, NaN, NaN>>
TextHigh == <<11, Text, 7, 13, 1>>

\* raw (date, prices) cells of a bar; a date cell is the text of a calendar
\* date (its day number) or other text
RawCells ==
  { <<1, Consistent>>, <<1, HighBelow>>, <<1, Missing>>,
    <<2, Consistent>>, <<2, LowAbove>>, <<2, Missing>>, <<2, TextHigh>>,
    <<Text, HighBelow>> }

\* a raw row; raw_index is the row's label in the index of the caller's
\* frame (its position in the raw input), kept to tell which row survives
RawRow(i, d, p) ==
  [raw_index |-> i, date |-> d, code |-> 7203, open |-> p[1], high |-> p[2],
   low |-> p[3], close |-> p[4], volume |-> p[5]]

RawFrames(n) ==
  { [i \in 1..n |-> RawRow(i - 1, dp[i][1], dp[i][2])] :
      dp \in [1..n -> RawCells] }

\* the keyword arguments: the defaults and three other settings
Options ==
  { [fill_method |-> "both", drop_duplicates |-> TRUE, sort_by_date |-> TRUE],
    [fill_method |-> "forward", drop_duplicates |-> TRUE, sort_by_date |-> TRUE],
    [fill_method |-> "backward", drop_duplicates |-> FALSE, sort_by_date |-> TRUE],
    [fill_method |-> "none", drop_duplicates |-> TRUE, sort_by_date |-> FALSE] }

DefaultOptions ==
  [fill_method |-> "both", drop_duplicates |-> TRUE, sort_by_date |-> TRUE]

(* ------------------------- pandas helpers ----------------------------- *)
isna(x) == x = NaN

Min(a, b) == IF a <= b THEN a ELSE b

\* pd.api.types.is_datetime64_any_dtype(df['date'])
is_datetime64_any_dtype(dtype) == dtype = "datetime64[ns]"

\* pd.to_datetime(df['date']): the dtype of the converted column; each cell
\* keeps the calendar date it denotes
to_datetime_dtype(dtype) == "datetime64[ns]"

\* df.iloc[a:b] on a 0-based half-open positional range
Iloc(s, a, b) == SubSeq(s, a + 1, b)

\* the column `col` of a frame, as a sequence of values
Column(frame, col) == [i \in 1..Len(frame) |-> frame[i][col]]

\* mutant: max() with skipna=False, NaN as soon as one value is missing
SeriesMax_NoSkip(s) ==
  IF Len(s) = 0 \/ \E k \in 1..Len(s) : isna(s[k]) THEN NaN
  ELSE CHOOSE x \in { s[k] : k \in 1..Len(s) } : \A k \in 1..Len(s) : s[k] <= x

\* Series.max(): skipna=True, NaN when no valid value exists
RECURSIVE SeriesMax(_)
SeriesMax(s) ==
  IF Len(s) = 0 THEN NaN
  ELSE LET rest == SeriesMax(Tail(s))
           x == Head(s)
       IN  IF isna(x) THEN rest
           ELSE IF isna(rest) THEN x
           ELSE IF x >= rest THEN x ELSE rest

\* mutant: the sort is left out
SortValues_Identity(frame) == {frame}

\* the orders of the rows with positions in S that are non-decreasing in date
RECURSIVE SortedOrders(_, _)
SortedOrders(frame, S) ==
  IF S = {} THEN { <<>> }
  ELSE UNION { { <<frame[m]>> \o t : t \in SortedOrders(frame, S \ {m}) } :
                 m \in { k \in S : \A j \in S : frame[k].date <= frame[j].date } }

\* df.sort_values(by='date').reset_index(drop=True): the rows in
\* non-decreasing date order; the default sort kind is not stable, so rows
\* with equal dates may come out in any order
SortValues(frame) == SortedOrders(frame, 1..Len(frame))

\* mutant: the label columns start at 1
InitLabels_Ones(frame) ==
  [i \in 1..Len(frame) |->
     [date |-> frame[i].date, code |-> frame[i].code, open |-> frame[i].open,
      high |-> frame[i].high, low |-> frame[i].low, close |-> frame[i].close,
      volume |-> frame[i].volume, buystrong_label |-> 1, buy_label |-> 1]]

\* df['buystrong_label'] = 0; df['buy_label'] = 0
InitLabels(frame) ==
  [i \in 1..Len(frame) |->
     [date |-> frame[i].date, code |-> frame[i].code, open |-> frame[i].open,
      high |-> frame[i].high, low |-> frame[i].low, close |-> frame[i].close,
      volume |-> frame[i].volume, buystrong_label |-> 0, buy_label |-> 0]]

(* ----------------------- generate_labels body ------------------------- *)
\* mutant: a zero close passes the validity test
IsInvalidPrice_Strict(current_price) == isna(current_price) \/ current_price < 0

\* pd.isna(current_price) or current_price <= 0
IsInvalidPrice(current_price) == isna(current_price) \/ current_price <= 0

\* mutant: the window is not limited to `days` rows
EndIdx_Unbounded(frame, i, days) == Len(frame)

\* mutant: the window stops one row early
EndIdx_Exclusive(frame, i, days) == Min(i + days, Len(frame))

\* end_idx = min(idx + days + 1, len(df))
EndIdx(frame, i, days) == Min(i + days + 1, Len(frame))

\* mutant: the slice starts at the current row
FutureHighs_Self(frame, i, end_idx) == Iloc(Column(frame, "high"), i, end_idx)

\* future_highs = df.iloc[idx + 1:end_idx]['high']
FutureHighs(frame, i, end_idx) == Iloc(Column(frame, "high"), i + 1, end_idx)

\* mutant: the gain is taken relative to the future high
GainAtLeast_WrongBase(max_high, current_price, threshold) ==
  (max_high - current_price) * 100 >= threshold * max_high

\* mutant: strict comparison
GainAtLeast_Strict(max_high, current_price, threshold) ==
  (max_high - current_price) * 100 > threshold * current_price

\* mutant: comparison reversed
GainAtLeast_Reversed(max_high, current_price, threshold) ==
  (max_high - current_price) * 100 <= threshold * current_price

\* price_change = (max_high - current_price) / current_price
\* price_change >= threshold
GainAtLeast(max_high, current_price, threshold) ==
  (max_high - current_price) * 100 >= threshold * current_price

\* GainAtLeast compares in exact arithmetic; IEEE doubles give the same
\* verdict whenever the exact gain equals the threshold and threshold < 1:
\* then max_high - current_price = threshold * current_price < current_price
\* is a multiple of ulp(current_price), so the subtraction is exact and the
\* correctly rounded quotient is the threshold itself.

\* one label block of the loop body: TRUE when the block assigns 1 to the
\* label cell of row i
LabelFires(frame, i, threshold, days) ==
  LET current_price == frame[i + 1].close
      end_idx == EndIdx(frame, i, days)
  IN  /\ end_idx > i + 1
      /\ LET future_highs == FutureHighs(frame, i, end_idx)
         IN  /\ Len(future_highs) > 0
             /\ LET max_high == SeriesMax(future_highs)
                IN  /\ ~isna(max_high)
                    /\ GainAtLeast(max_high, current_price, threshold)

\* the label the loop leaves in row i for one (threshold, days) pair
RowLabel(frame, i, threshold, days) ==
  IF IsInvalidPrice(frame[i + 1].close) THEN 0
  ELSE IF LabelFires(frame, i, threshold, days) THEN 1 ELSE 0

\* mutant: the two thresholds are swapped between the label blocks
LoopBody_SwappedThresholds(frame, i, a) ==
  IF IsInvalidPrice(frame[i + 1].close)
  THEN frame
  ELSE [frame EXCEPT
          ![i + 1].buystrong_label =
             IF LabelFires(frame, i, a.buy_threshold, a.strong_buy_days)
             THEN 1 ELSE @,
          ![i + 1].buy_label =
             IF LabelFires(frame, i, a.strong_buy_threshold, a.buy_days)
             THEN 1 ELSE @]

\* lines 50-76: one iteration of the loop on row i
LoopBody(frame, i, a) ==
  IF IsInvalidPrice(frame[i + 1].close)
  THEN frame
  ELSE [frame EXCEPT
          ![i + 1].buystrong_label =
             IF LabelFires(frame, i, a.strong_buy_threshold, a.strong_buy_days)
             THEN 1 ELSE @,
          ![i + 1].buy_label =
             IF LabelFires(frame, i, a.buy_threshold, a.buy_days)
             THEN 1 ELSE @]

\* line 49: for idx in range(len(df)), from idx = i on
RECURSIVE Loop(_, _, _)
Loop(frame, i, a) ==
  IF i >= Len(frame) THEN frame
  ELSE Loop(LoopBody(frame, i, a), i + 1, a)

\* the input columns of a labelled row, and of every row of a labelled frame
BarOf(row) ==
  [date |-> row.date, code |-> row.code, open |-> row.open, high |-> row.high,
   low |-> row.low, close |-> row.close, volume |-> row.volume]

Bars(frame) == [k \in 1..Len(frame) |-> BarOf(frame[k])]

(* ------------------ generate_labels_vectorized: the loop --------------- *)
\* mutant: the BUY block reads the Strong BUY window
VectorizedLoopBody_OneWindow(frame, idx, a) ==
  LET current_price == frame[idx + 1].close
  IN  IF IsInvalidPrice(current_price) THEN frame
      ELSE
        LET end_idx_10 == Min(idx + a.strong_buy_days + 1, Len(frame))
            future_highs_10 == Iloc(Column(frame, "high"), idx + 1, end_idx_10)
            strong == /\ end_idx_10 > idx + 1
                      /\ Len(future_highs_10) > 0
                      /\ ~isna(SeriesMax(future_highs_10))
                      /\ GainAtLeast(SeriesMax(future_highs_10), current_price,
                                     a.strong_buy_threshold)
            buy ==    /\ end_idx_10 > idx + 1
                      /\ Len(future_highs_10) > 0
                      /\ ~isna(SeriesMax(future_highs_10))
                      /\ GainAtLeast(SeriesMax(future_highs_10), current_price,
                                     a.buy_threshold)
        IN  [frame EXCEPT
               ![idx + 1].buystrong_label = IF strong THEN 1 ELSE @,
               ![idx + 1].buy_label = IF buy THEN 1 ELSE @]

\* lines 113-140: one iteration of the loop of generate_labels_vectorized
VectorizedLoopBody(frame, idx, a) ==
  LET current_price == frame[idx + 1].close
  IN  IF IsInvalidPrice(current_price) THEN frame
      ELSE
        LET end_idx_10 == Min(idx + a.strong_buy_days + 1, Len(frame))
            end_idx_15 == Min(idx + a.buy_days + 1, Len(frame))
            future_highs_10 == Iloc(Column(frame, "high"), idx + 1, end_idx_10)
            future_highs_15 == Iloc(Column(frame, "high"), idx + 1, end_idx_15)
            strong == /\ end_idx_10 > idx + 1
                      /\ Len(future_highs_10) > 0
                      /\ ~isna(SeriesMax(future_highs_10))
                      /\ GainAtLeast(SeriesMax(future_highs_10), current_price,
                                     a.strong_buy_threshold)
            buy ==    /\ end_idx_15 > idx + 1
                      /\ Len(future_highs_15) > 0
                      /\ ~isna(SeriesMax(future_highs_15))
                      /\ GainAtLeast(SeriesMax(future_highs_15), current_price,
                                     a.buy_threshold)
        IN  [frame EXCEPT
               ![idx + 1].buystrong_label = IF strong THEN 1 ELSE @,
               ![idx + 1].buy_label = IF buy THEN 1 ELSE @]

\* line 112: for idx in range(len(df)), from idx on
RECURSIVE VectorizedLoop(_, _, _)
VectorizedLoop(frame, idx, a) ==
  IF idx >= Len(frame) THEN frame
  ELSE VectorizedLoop(VectorizedLoopBody(frame, idx, a), idx + 1, a)

(* ------------------------- preprocess_data ----------------------------- *)
\* pd.to_datetime(cell, errors='coerce')
to_datetime_coerce(cell) == IF cell = Text THEN NaT ELSE cell

\* pd.to_numeric(cell, errors='coerce')
to_numeric_coerce(cell) == IF cell = Text THEN NaN ELSE cell

\* line 36: df['date'] = pd.to_datetime(df['date'], errors='coerce')
ConvertDates(frame) ==
  [k \in 1..Len(frame) |->
     [frame[k] EXCEPT !.date = to_datetime_coerce(@)]]

\* df.drop_duplicates(subset=['date'], keep='first').reset_index(drop=True):
\* the rows no earlier row of the frame has the date of; missing dates count
\* as equal dates
RECURSIVE DropDuplicates(_)
DropDuplicates(frame) ==
  IF frame = <<>> THEN <<>>
  ELSE LET init == SubSeq(frame, 1, Len(frame) - 1)
           last == frame[Len(frame)]
       IN  IF \E j \in 1..Len(init) : init[j].date = last.date
           THEN DropDuplicates(init)
           ELSE Append(DropDuplicates(init), last)

\* lines 47-50: pd.to_numeric(df[col], errors='coerce') for the five columns
ConvertNumeric(frame) ==
  [k \in 1..Len(frame) |->
     [frame[k] EXCEPT !.open = to_numeric_coerce(@),
                      !.high = to_numeric_coerce(@),
                      !.low = to_numeric_coerce(@),
                      !.close = to_numeric_coerce(@),
                      !.volume = to_numeric_coerce(@)]]

\* Series.ffill(): a missing cell takes the last value present above it
ffill(series) ==
  [k \in 1..Len(series) |->
     IF \E j \in 1..k : ~isna(series[j])
     THEN series[CHOOSE j \in 1..k :
                   ~isna(series[j]) /\ \A m \in (j + 1)..k : isna(series[m])]
     ELSE NaN]

\* Series.bfill(): a missing cell takes the first value present below it
bfill(series) ==
  [k \in 1..Len(series) |->
     IF \E j \in k..Len(series) : ~isna(series[j])
     THEN series[CHOOSE j \in k..Len(series) :
                   ~isna(series[j]) /\ \A m \in k..(j - 1) : isna(series[m])]
     ELSE NaN]

\* the frame with each of the five numeric columns forward filled
\* (method "ffill") or backward filled (method "bfill")
FillColumns(frame, method) ==
  LET fill(series) == IF method = "ffill" THEN ffill(series) ELSE bfill(series)
      o == fill(Column(frame, "open"))
      h == fill(Column(frame, "high"))
      l == fill(Column(frame, "low"))
      c == fill(Column(frame, "close"))
      v == fill(Column(frame, "volume"))
  IN  [k \in 1..Len(frame) |->
         [frame[k] EXCEPT !.open = o[k], !.high = h[k], !.low = l[k],
                          !.close = c[k], !.volume = v[k]]]

\* lines 53-63: forward fill, then backward fill, as fill_method asks
GapFill(frame, fill_method) ==
  LET forward == IF fill_method \in {"forward", "both"}
                 THEN FillColumns(frame, "ffill") ELSE frame
  IN  IF fill_method \in {"backward", "both"}
      THEN FillColumns(forward, "bfill") ELSE forward

\* DataFrame.max(axis=1) / DataFrame.min(axis=1) of one row: missing cells
\* are skipped, the result is missing when all cells are
RowMax(cells) ==
  IF \A k \in 1..Len(cells) : isna(cells[k]) THEN NaN
  ELSE CHOOSE x \in { cells[k] : k \in { j \in 1..Len(cells) : ~isna(cells[j]) } } :
         \A k \in 1..Len(cells) : isna(cells[k]) \/ cells[k] <= x

RowMin(cells) ==
  IF \A k \in 1..Len(cells) : isna(cells[k]) THEN NaN
  ELSE CHOOSE x \in { cells[k] : k \in { j \in 1..Len(cells) : ~isna(cells[j]) } } :
         \A k \in 1..Len(cells) : isna(cells[k]) \/ cells[k] >= x

\* mutant: the low column is left as it is
AdjustLow_Unchanged(row) == row

\* line 68: df['high'] = df[['high', 'open', 'close', 'low']].max(axis=1)
AdjustHigh(row) ==
  [row EXCEPT !.high = RowMax(<<row.high, row.open, row.close, row.low>>)]

\* line 69: df['low'] = df[['high', 'open', 'close', 'low']].min(axis=1),
\* read from the frame line 68 has assigned the high column of
AdjustLow(row) ==
  [row EXCEPT !.low = RowMin(<<row.high, row.open, row.close, row.low>>)]

\* lines 66-69
AdjustOHLC(frame) ==
  [k \in 1..Len(frame) |-> AdjustLow(AdjustHigh(frame[k]))]

\* lines 72-73: df['volume'].clip(lower=0); a missing volume stays missing
ClipVolume(frame) ==
  [k \in 1..Len(frame) |->
     [frame[k] EXCEPT !.volume = IF ~isna(@) /\ @ < 0 THEN 0 ELSE @]]

\* lines 36-63: the frames the code can hold after gap filling
FilledFrames(frame, o) ==
  LET dated == ConvertDates(frame)
      orders == IF o.sort_by_date THEN SortValues(dated) ELSE { dated }
  IN  { GapFill(ConvertNumeric(IF o.drop_duplicates
                               THEN DropDuplicates(sorted) ELSE sorted),
                o.fill_method) : sorted \in orders }

(* ----------------------- get_jquants_id_token -------------------------- *)
\* strings are sequences of characters
StoredToken == <<"s", "t", "o", "r", "e", "d", "-", "t", "o", "k", "e", "n">>
FreshToken == <<"f", "r", "e", "s", "h", "-", "t", "o", "k", "e", "n">>
IdToken == <<"i", "d">>

\* values of JQUANTS_REFRESH_TOKEN; an unset variable (None) and the empty
\* string are both the empty sequence, the code tests them by truth value only
EnvTokens ==
  { <<>>, <<" ", " ">>, <<"'", "'">>, <<"s", "h", "o", "r", "t">>, StoredToken,
    <<" ", "'">> \o StoredToken \o <<"'", "\n">> }

\* values of JQUANTS_EMAIL and of JQUANTS_PASSWORD; "" when unset or empty
EnvTexts == {"", "set"}

Environments ==
  [JQUANTS_EMAIL: EnvTexts, JQUANTS_PASSWORD: EnvTexts,
   JQUANTS_REFRESH_TOKEN: EnvTokens]

\* what the service answers to auth_user, and to auth_refresh with the
\* stored and with a fresh refresh token
AuthUserResponses ==
  {"refreshToken", "no refreshToken", "HTTPError", "ConnectionError",
   "invalid JSON"}
AuthRefreshResponses == {"idToken", "no idToken", "HTTPError", "ConnectionError"}

Servers ==
  [auth_user: AuthUserResponses, stored: AuthRefreshResponses,
   fresh: AuthRefreshResponses]

\* str.strip(chars): leading and trailing characters of chars removed
RECURSIVE lstrip(_, _)
lstrip(s, chars) ==
  IF s # <<>> /\ s[1] \in chars THEN lstrip(Tail(s), chars) ELSE s

RECURSIVE rstrip(_, _)
rstrip(s, chars) ==
  IF s # <<>> /\ s[Len(s)] \in chars
  THEN rstrip(SubSeq(s, 1, Len(s) - 1), chars) ELSE s

strip(s, chars) == rstrip(lstrip(s, chars), chars)

Whitespace == {" ", "\n", "\r", "\t"}

\* str.replace(ch, ''): every occurrence of ch removed
RECURSIVE remove(_, _)
remove(s, ch) ==
  IF s = <<>> THEN <<>>
  ELSE IF s[1] = ch THEN remove(Tail(s), ch)
       ELSE <<s[1]>> \o remove(Tail(s), ch)

\* lines 130-131
CleanToken(token) ==
  remove(remove(strip(strip(strip(strip(token, Whitespace), {"\""}), {"'"}),
                      Whitespace), "\n"), "\r")

\* lines 126-136: use_refresh_token after cleaning
UseRefreshToken(token) ==
  /\ token # <<>> /\ strip(token, Whitespace) # <<>>
  /\ CleanToken(token) # <<>>
  /\ ~(Len(CleanToken(token)) < 10)

(* ----------------------------- state ---------------------------------- *)
\* df, df_dtype: the caller's frame and the dtype of its date column
\* args: the four keyword arguments
\* pc: "ready" before the call, "returned" after it, "returned_vectorized"
\*     after the call of generate_labels_vectorized that follows it
\* out, out_dtype: the returned frame and the dtype of its date column
\* out_vec: the frame returned by generate_labels_vectorized
VARIABLES df, df_dtype, args, pc, out, out_dtype, out_vec
\* raw_df, options: the frame and the keyword arguments preprocess_data is
\*     called with
\* pre_pc: "ready" before the call of preprocess_data, "returned" after it
\* df_filled: the frame of preprocess_data after gap filling (line 63)
\* df_clean: the frame preprocess_data returns
VARIABLES raw_df, options, pre_pc, df_filled, df_clean
\* env: the environment variables get_jquants_id_token reads
\* server: the answers of the J-Quants token endpoints
\* auth_pc: "start" at the call; "auth_user" and "auth_refresh" before the
\*     request to that endpoint; "returned" or "raised" at the end
\* refresh_token: the local variable refresh_token
\* result: the idToken returned, or <<>>
\* sent: the requests sent so far, as <<endpoint, refresh token>>
VARIABLES env, server, auth_pc, refresh_token, result, sent

labelVars == <<df, df_dtype, args, pc, out, out_dtype, out_vec>>
preprocessVars == <<raw_df, options, pre_pc, df_filled, df_clean>>
authVars == <<env, server, auth_pc, refresh_token, result, sent>>
vars == <<labelVars, preprocessVars, authVars>>

\* get_jquants_id_token is not called
AuthIdle ==
  /\ env = [JQUANTS_EMAIL |-> "", JQUANTS_PASSWORD |-> "",
            JQUANTS_REFRESH_TOKEN |-> <<>>]
  /\ server = [auth_user |-> "HTTPError", stored |-> "HTTPError",
               fresh |-> "HTTPError"]
  /\ auth_pc = "idle"
  /\ refresh_token = <<>>
  /\ result = <<>>
  /\ sent = <<>>

\* preprocess_data is not called
PreprocessIdle ==
  /\ raw_df = <<>>
  /\ options = DefaultOptions
  /\ pre_pc = "idle"
  /\ df_filled = <<>>
  /\ df_clean = <<>>

\* the label functions are not called
LabelIdle ==
  /\ df = <<>>
  /\ df_dtype = "datetime64[ns]"
  /\ args = [strong_buy_threshold |-> 25, buy_threshold |-> 18,
             strong_buy_days |-> 2, buy_days |-> 2]
  /\ pc = "idle"
  /\ out = <<>>
  /\ out_dtype = df_dtype
  /\ out_vec = <<>>

\* a call on a series as the normalizer leaves it
InitClean ==
  /\ df \in UNION { CleanBars(n) : n \in 0..MaxLen }
  /\ df_dtype = "datetime64[ns]"
  /\ args \in Args

\* a call on a raw series
InitRaw ==
  /\ df \in UNION { RawBars(n) : n \in 0..MaxLen }
  /\ df_dtype \in DateDtypes
  /\ args \in DefaultThresholdArgs

Init ==
  /\ (InitClean \/ InitRaw)
  /\ pc = "ready"
  /\ out = <<>>
  /\ out_dtype = df_dtype
  /\ out_vec = <<>>
  /\ PreprocessIdle
  /\ AuthIdle

\* mutant: no copy, the date conversion is applied to the caller's frame
generate_labels_NoCopy ==
  /\ pc = "ready"
  /\ out_dtype' = IF ~is_datetime64_any_dtype(df_dtype)
                  THEN to_datetime_dtype(df_dtype) ELSE df_dtype
  /\ df_dtype' = out_dtype'
  /\ \E sorted \in SortValues(df) : out' = Loop(InitLabels(sorted), 0, args)
  /\ pc' = "returned"
  /\ UNCHANGED <<df, args, out_vec, preprocessVars, authVars>>

\* lines 34-78: copy, convert the date column, sort by date, add the two label
\* columns, run the loop, return the local frame
generate_labels ==
  /\ pc = "ready"
  /\ out_dtype' = IF ~is_datetime64_any_dtype(df_dtype)
                  THEN to_datetime_dtype(df_dtype) ELSE df_dtype
  /\ \E sorted \in SortValues(df) : out' = Loop(InitLabels(sorted), 0, args)
  /\ pc' = "returned"
  /\ UNCHANGED <<df, df_dtype, args, out_vec, preprocessVars, authVars>>

Next == generate_labels

Spec == Init /\ [][Next]_vars

\* generate_labels called on a series as the normalizer leaves it
InitNormalized ==
  /\ InitClean
  /\ pc = "ready"
  /\ out = <<>>
  /\ out_dtype = df_dtype
  /\ out_vec = <<>>
  /\ PreprocessIdle
  /\ AuthIdle

SpecNormalized == InitNormalized /\ [][Next]_vars

\* generate_labels_vectorized(df, ...) called on the frame generate_labels was
\* called on; sort_values is a function of its input, so it returns the order
\* it returned to generate_labels
generate_labels_vectorized ==
  /\ pc = "returned"
  /\ \E sorted \in SortValues(df) :
        /\ sorted = Bars(out)
        /\ out_vec' = VectorizedLoop(InitLabels(sorted), 0, args)
  /\ pc' = "returned_vectorized"
  /\ UNCHANGED <<df, df_dtype, args, out, out_dtype, preprocessVars, authVars>>

NextVectorized == generate_labels \/ generate_labels_vectorized

SpecVectorized == Init /\ [][NextVectorized]_vars

\* a call of preprocess_data on a raw frame
InitPreprocess ==
  /\ raw_df \in UNION { RawFrames(n) : n \in 0..MaxLen }
  /\ options \in Options
  /\ pre_pc = "ready"
  /\ df_filled = <<>>
  /\ df_clean = <<>>
  /\ LabelIdle
  /\ AuthIdle

\* preprocess_data(raw_df, **options): works on a copy, returns df_clean
preprocess_data ==
  /\ pre_pc = "ready"
  /\ \E filled \in FilledFrames(raw_df, options) :
        /\ df_filled' = filled
        /\ df_clean' = ClipVolume(AdjustOHLC(filled))
  /\ pre_pc' = "returned"
  /\ UNCHANGED <<raw_df, options, labelVars, authVars>>

NextPreprocess == preprocess_data

SpecPreprocess == InitPreprocess /\ [][NextPreprocess]_vars

\* a call of get_jquants_id_token
InitAuth ==
  /\ env \in Environments
  /\ server \in Servers
  /\ auth_pc = "start"
  /\ refresh_token = <<>>
  /\ result = <<>>
  /\ sent = <<>>
  /\ LabelIdle
  /\ PreprocessIdle

\* lines 121-145: read the environment, clean the stored token, decide
\* which request comes first; raise when there is nothing to send
ReadEnvironment ==
  /\ auth_pc = "start"
  /\ IF UseRefreshToken(env.JQUANTS_REFRESH_TOKEN)
     THEN /\ refresh_token' = CleanToken(env.JQUANTS_REFRESH_TOKEN)
          /\ auth_pc' = "auth_refresh"
     ELSE /\ refresh_token' = refresh_token
          /\ auth_pc' = IF env.JQUANTS_EMAIL = "" \/ env.JQUANTS_PASSWORD = ""
                        THEN "raised" ELSE "auth_user"
  /\ UNCHANGED <<env, server, result, sent, labelVars, preprocessVars>>

\* lines 146-153 with _obtain_refresh_token (lines 92-108): POST auth_user;
\* every failure is raised as JQuantsAuthError
AuthUser ==
  /\ auth_pc = "auth_user"
  /\ sent' = Append(sent, <<"auth_user", <<>>>>)
  /\ IF server.auth_user = "refreshToken"
     THEN refresh_token' = FreshToken /\ auth_pc' = "auth_refresh"
     ELSE refresh_token' = refresh_token /\ auth_pc' = "raised"
  /\ UNCHANGED <<env, server, result, labelVars, preprocessVars>>

\* the answer of auth_refresh to a refresh token
AuthRefreshResponse(token) ==
  IF token = FreshToken THEN server.fresh ELSE server.stored

\* lines 156-190: POST auth_refresh with refresh_token; the idToken is
\* returned, every failure is raised as JQuantsAuthError (lines 176, 188, 190)
AuthRefresh ==
  /\ auth_pc = "auth_refresh"
  /\ IF Len(refresh_token) = 0
     THEN auth_pc' = "raised" /\ UNCHANGED <<result, sent>>
     ELSE /\ sent' = Append(sent, <<"auth_refresh", refresh_token>>)
          /\ IF AuthRefreshResponse(refresh_token) = "idToken"
             THEN result' = IdToken /\ auth_pc' = "returned"
             ELSE result' = result /\ auth_pc' = "raised"
  /\ UNCHANGED <<env, server, refresh_token, labelVars, preprocessVars>>

NextAuth == ReadEnvironment \/ AuthUser \/ AuthRefresh

SpecAuth == InitAuth /\ [][NextAuth]_vars

(* ========================= properties ================================= *)
Rows(frame) == 0..(Len(frame) - 1)

ValidClose(frame, i) == frame[i + 1].close # NaN /\ frame[i + 1].close > 0

\* the frame with the high of row j replaced by v
WithHigh(frame, j, v) == [frame EXCEPT ![j + 1].high = v]

\* positions i+1 .. min(i+days, n-1) that carry a high
ValidFuture(frame, i, days) ==
  { j \in (i + 1)..Min(i + days, Len(frame) - 1) : frame[j + 1].high # NaN }

\* some valid future high exists and the largest one gains at least threshold%
Qualifies(frame, i, threshold, days) ==
  LET valid == ValidFuture(frame, i, days)
      c == frame[i + 1].close
  IN  /\ valid # {}
      /\ \E m \in valid :
            /\ \A j \in valid : frame[j + 1].high <= frame[m + 1].high
            /\ (frame[m + 1].high - c) * 100 >= threshold * c

\* C1: for every row with a present, positive close the strong (buy) label is
\* 1 exactly when some row among the next strongWindow (buyWindow) rows,
\* i+1 .. min(i+window, n-1), has a non-missing high and the largest such
\* high gains at least the threshold over close[i]; otherwise it is 0.
C1_LabelIffMaxFutureHighQualifies ==
  pc = "returned" =>
    \A i \in Rows(out) :
      ValidClose(out, i) =>
        /\ out[i + 1].buystrong_label =
             IF Qualifies(out, i, args.strong_buy_threshold, args.strong_buy_days)
             THEN 1 ELSE 0
        /\ out[i + 1].buy_label =
             IF Qualifies(out, i, args.buy_threshold, args.buy_days)
             THEN 1 ELSE 0

\* a row labelled 1 whose window holds two valid highs, the larger one last,
\* and a row with valid future highs labelled 0
C1_Witness ==
  /\ pc = "returned"
  /\ \E i \in Rows(out) :
        /\ ValidClose(out, i)
        /\ out[i + 1].buystrong_label = 1
        /\ Cardinality(ValidFuture(out, i, args.strong_buy_days)) = 2
        /\ out[i + 2].high < out[i + 3].high
  /\ \E k \in Rows(out) :
        /\ ValidClose(out, k)
        /\ ValidFuture(out, k, args.buy_days) # {}
        /\ out[k + 1].buy_label = 0

\* C2 (as stated): the window of row i ends at index min(i+window, n) - 1, so
\* the high at index i + window never changes the label of row i.
C2_HighAtWindowEndNeverCounts ==
  pc = "returned" =>
    \A i \in Rows(out) : \A v \in HighValues :
      /\ (i + args.strong_buy_days) \in Rows(out) =>
           RowLabel(WithHigh(out, i + args.strong_buy_days, v), i,
                    args.strong_buy_threshold, args.strong_buy_days)
             = out[i + 1].buystrong_label
      /\ (i + args.buy_days) \in Rows(out) =>
           RowLabel(WithHigh(out, i + args.buy_days, v), i,
                    args.buy_threshold, args.buy_days)
             = out[i + 1].buy_label

\* C2 (amended): the window of row i ends at index min(i+window+1, n) - 1 =
\* min(i+window, n-1): a high at an index above i + window never changes the
\* label of row i, and a qualifying high at index i + window sets it to 1.
C2_WindowEndsAtIPlusWindow ==
  pc = "returned" =>
    \A i \in Rows(out) :
      /\ \A j \in (i + args.strong_buy_days + 1)..(Len(out) - 1) :
           \A v \in HighValues :
             RowLabel(WithHigh(out, j, v), i,
                      args.strong_buy_threshold, args.strong_buy_days)
               = out[i + 1].buystrong_label
      /\ \A j \in (i + args.buy_days + 1)..(Len(out) - 1) :
           \A v \in HighValues :
             RowLabel(WithHigh(out, j, v), i,
                      args.buy_threshold, args.buy_days)
               = out[i + 1].buy_label
      /\ ( /\ ValidClose(out, i)
           /\ (i + args.strong_buy_days) \in Rows(out)
           /\ out[i + args.strong_buy_days + 1].high # NaN
           /\ (out[i + args.strong_buy_days + 1].high - out[i + 1].close) * 100
                >= args.strong_buy_threshold * out[i + 1].close )
         => out[i + 1].buystrong_label = 1
      /\ ( /\ ValidClose(out, i)
           /\ (i + args.buy_days) \in Rows(out)
           /\ out[i + args.buy_days + 1].high # NaN
           /\ (out[i + args.buy_days + 1].high - out[i + 1].close) * 100
                >= args.buy_threshold * out[i + 1].close )
         => out[i + 1].buy_label = 1

\* row 0 is labelled 1 by the high at index 0 + 2 alone, with window 2
C2_Witness ==
  /\ pc = "returned"
  /\ Len(out) = 3
  /\ args.strong_buy_days = 2
  /\ args.strong_buy_threshold = 25
  /\ out[1].close = 100
  /\ out[2].high = 118
  /\ out[3].high = 125
  /\ out[1].buystrong_label = 1

\* C3: a row whose close is missing or <= 0 has both labels 0 whatever the
\* other bars, thresholds and windows are, and the call still returns all
\* rows labelled.
C3_InvalidCloseLabelsZero ==
  pc = "returned" =>
    /\ Len(out) = Len(df)
    /\ \A i \in Rows(out) :
         (out[i + 1].close = NaN \/ out[i + 1].close <= 0) =>
           out[i + 1].buystrong_label = 0 /\ out[i + 1].buy_label = 0

\* a zero close followed by a high of 125 and a missing close, in a series
\* where another row is labelled 1
C3_Witness ==
  /\ pc = "returned"
  /\ \E i \in Rows(out) :
        out[i + 1].close = 0 /\ (i + 1) \in Rows(out) /\ out[i + 2].high = 125
  /\ \E i \in Rows(out) : out[i + 1].close = NaN
  /\ \E k \in Rows(out) : out[k + 1].buystrong_label = 1 /\ out[k + 1].buy_label = 1

\* C4: when the largest valid future high of the window gains exactly the
\* threshold over close[i], the label is 1.
C4_EqualityQualifies ==
  pc = "returned" =>
    \A i \in Rows(out) :
      ValidClose(out, i) =>
        /\ (\E m \in ValidFuture(out, i, args.strong_buy_days) :
              /\ \A j \in ValidFuture(out, i, args.strong_buy_days) :
                    out[j + 1].high <= out[m + 1].high
              /\ (out[m + 1].high - out[i + 1].close) * 100
                   = args.strong_buy_threshold * out[i + 1].close)
           => out[i + 1].buystrong_label = 1
        /\ (\E m \in ValidFuture(out, i, args.buy_days) :
              /\ \A j \in ValidFuture(out, i, args.buy_days) :
                    out[j + 1].high <= out[m + 1].high
              /\ (out[m + 1].high - out[i + 1].close) * 100
                   = args.buy_threshold * out[i + 1].close)
           => out[i + 1].buy_label = 1

\* close 100, largest future high 125, strong threshold 25%; and close 100,
\* largest future high 118, buy threshold 18%
C4_Witness ==
  /\ pc = "returned"
  /\ args.strong_buy_threshold = 25
  /\ args.buy_threshold = 18
  /\ \E i \in Rows(out) :
        /\ out[i + 1].close = 100
        /\ SeriesMax(FutureHighs(out, i, EndIdx(out, i, args.strong_buy_days))) = 125
        /\ out[i + 1].buystrong_label = 1
  /\ \E i \in Rows(out) :
        /\ out[i + 1].close = 100
        /\ SeriesMax(FutureHighs(out, i, EndIdx(out, i, args.buy_days))) = 118
        /\ out[i + 1].buy_label = 1

\* C5: replacing only high[i] by any other value leaves both labels of row i
\* as they are.
C5_NoSelfReference ==
  pc = "returned" =>
    \A i \in Rows(out) : \A v \in HighValues :
      /\ RowLabel(WithHigh(out, i, v), i,
                  args.strong_buy_threshold, args.strong_buy_days)
           = out[i + 1].buystrong_label
      /\ RowLabel(WithHigh(out, i, v), i,
                  args.buy_threshold, args.buy_days)
           = out[i + 1].buy_label

\* a row whose own high would qualify but whose label is 0, and a row whose
\* own high does not qualify but whose label is 1
C5_Witness ==
  /\ pc = "returned"
  /\ \E i \in Rows(out) :
        /\ out[i + 1].close = 100 /\ out[i + 1].high = 125
        /\ (i + 1) \in Rows(out)
        /\ out[i + 1].buystrong_label = 0 /\ out[i + 1].buy_label = 0
  /\ \E i \in Rows(out) :
        /\ out[i + 1].close = 100 /\ out[i + 1].high = NaN
        /\ out[i + 1].buystrong_label = 1 /\ out[i + 1].buy_label = 1

\* C6: output keeps every row; a row whose forward range is empty (the last
\* row in particular) or whose future highs in the window are all missing is
\* labelled 0; near the tail the window is the remaining rows only, so no row
\* at or before i (no wraparound) changes the label of row i.
C6_TailPolicy ==
  pc = "returned" =>
    /\ Len(out) = Len(df)
    /\ Len(out) > 0 =>
         out[Len(out)].buystrong_label = 0 /\ out[Len(out)].buy_label = 0
    /\ \A i \in Rows(out) :
         /\ ValidFuture(out, i, args.strong_buy_days) = {} =>
              out[i + 1].buystrong_label = 0
         /\ ValidFuture(out, i, args.buy_days) = {} =>
              out[i + 1].buy_label = 0
         /\ i + args.strong_buy_days > Len(out) - 1 =>
              \A j \in 0..i : \A v \in HighValues :
                RowLabel(WithHigh(out, j, v), i,
                         args.strong_buy_threshold, args.strong_buy_days)
                  = out[i + 1].buystrong_label
         /\ i + args.buy_days > Len(out) - 1 =>
              \A j \in 0..i : \A v \in HighValues :
                RowLabel(WithHigh(out, j, v), i,
                         args.buy_threshold, args.buy_days)
                  = out[i + 1].buy_label

\* three rows with valid closes: row 0 labelled 1, row 1 with a truncated
\* window whose only high is missing, the last row with an empty range, and a
\* high of 125 at row 0 that a wraparound would pick up
C6_Witness ==
  /\ pc = "returned"
  /\ Len(out) = 3
  /\ args.strong_buy_days = 2
  /\ \A i \in Rows(out) : out[i + 1].close = 100
  /\ out[1].high = 125 /\ out[2].high = 125 /\ out[3].high = NaN
  /\ out[1].buystrong_label = 1
  /\ out[2].buystrong_label = 0
  /\ out[3].buystrong_label = 0

\* C7: with the series and window fixed, a row labelled 1 under a threshold
\* is labelled 1 under every lower threshold, and a row labelled 0 is labelled
\* 0 under every higher threshold (strong and buy).
C7_MonotoneInThreshold ==
  pc = "returned" =>
    \A i \in Rows(out) : \A t \in Thresholds :
      /\ (t <= args.strong_buy_threshold /\ out[i + 1].buystrong_label = 1) =>
           RowLabel(out, i, t, args.strong_buy_days) = 1
      /\ (t >= args.strong_buy_threshold /\ out[i + 1].buystrong_label = 0) =>
           RowLabel(out, i, t, args.strong_buy_days) = 0
      /\ (t <= args.buy_threshold /\ out[i + 1].buy_label = 1) =>
           RowLabel(out, i, t, args.buy_days) = 1
      /\ (t >= args.buy_threshold /\ out[i + 1].buy_label = 0) =>
           RowLabel(out, i, t, args.buy_days) = 0

\* same window, strong threshold 25 and buy threshold 18: a row labelled 0
\* under 25 and 1 under 18
C7_Witness ==
  /\ pc = "returned"
  /\ args.strong_buy_threshold = 25
  /\ args.buy_threshold = 18
  /\ args.strong_buy_days = args.buy_days
  /\ \E i \in Rows(out) :
        out[i + 1].buystrong_label = 0 /\ out[i + 1].buy_label = 1

\* window lengths the monotonicity is checked over
WindowLengths == 1..(MaxLen + 1)

\* C8: with the series and threshold fixed, a row labelled 1 under a window
\* is labelled 1 under every longer window, and a row labelled 0 is labelled
\* 0 under every shorter window, missing highs in the added rows included.
C8_MonotoneInWindow ==
  pc = "returned" =>
    \A i \in Rows(out) : \A w \in WindowLengths :
      /\ (w >= args.strong_buy_days /\ out[i + 1].buystrong_label = 1) =>
           RowLabel(out, i, args.strong_buy_threshold, w) = 1
      /\ (w <= args.strong_buy_days /\ out[i + 1].buystrong_label = 0) =>
           RowLabel(out, i, args.strong_buy_threshold, w) = 0
      /\ (w >= args.buy_days /\ out[i + 1].buy_label = 1) =>
           RowLabel(out, i, args.buy_threshold, w) = 1
      /\ (w <= args.buy_days /\ out[i + 1].buy_label = 0) =>
           RowLabel(out, i, args.buy_threshold, w) = 0

\* row 0 is labelled 1 with window 1, and the row a window of 2 adds has a
\* missing high
C8_Witness ==
  /\ pc = "returned"
  /\ Len(out) = 3
  /\ args.strong_buy_days = 1
  /\ out[1].buystrong_label = 1
  /\ out[3].high = NaN

\* the precondition of the label engine: non-empty, strictly ascending dates
Precondition(frame) ==
  /\ Len(frame) > 0
  /\ \A i, j \in 1..Len(frame) : i < j => frame[i].date < frame[j].date

OutputShape ==
  /\ \A k \in 1..Len(df) : DOMAIN df[k] =
        {"date", "code", "open", "high", "low", "close", "volume"}
  /\ (\A i, j \in 1..Len(df) : i < j => df[i].date < df[j].date) =>
        /\ Len(out) = Len(df)
        /\ is_datetime64_any_dtype(df_dtype) => out_dtype = df_dtype
        /\ \A k \in 1..Len(df) :
              /\ BarOf(out[k]) = df[k]
              /\ out[k].buystrong_label \in {0, 1}
              /\ out[k].buy_label \in {0, 1}

C10_InputNotMutated ==
  [][df' = df /\ df_dtype' = df_dtype /\ (pc' = "returned" => OutputShape')]_vars

\* a three-row ascending input returned with a row labelled 1 and one 0
C10_Witness ==
  /\ pc = "returned"
  /\ Len(df) = 3
  /\ \A i, j \in 1..Len(df) : i < j => df[i].date < df[j].date
  /\ is_datetime64_any_dtype(df_dtype)
  /\ out[1].buy_label = 1
  /\ out[3].buy_label = 0
  /\ \A k \in 1..3 : BarOf(out[k]) = df[k]

Max(a, b) == IF a >= b THEN a ELSE b

StrictlyAscending(frame) ==
  \A i, j \in 1..Len(frame) : i < j => frame[i].date < frame[j].date

\* what a worker returns for chunk [a, b): the results of generate_labels on
\* bars a .. min(b-1+max(strongWindow, buyWindow), n-1), cut to the first
\* b-a rows
ChunkResults(bars, a, b, ar) ==
  LET last == Min(b - 1 + Max(ar.strong_buy_days, ar.buy_days), Len(bars) - 1)
  IN  { SubSeq(Loop(InitLabels(sorted), 0, ar), 1, b - a) :
          sorted \in SortValues(SubSeq(bars, a + 1, last + 1)) }

\* the results of the chunks from row a on, for the cut points C, concatenated
\* in index order
RECURSIVE Assembled(_, _, _, _)
Assembled(bars, C, a, ar) ==
  IF a >= Len(bars) THEN { <<>> }
  ELSE LET b == CHOOSE c \in (C \cup {Len(bars)}) :
                   c > a /\ \A d \in (C \cup {Len(bars)}) : d > a => c <= d
       IN  { head \o rest : head \in ChunkResults(bars, a, b, ar),
                            rest \in Assembled(bars, C, b, ar) }

\* C11: for a series with strictly ascending dates and every split of
\* 0..n-1 into contiguous chunks, labelling each chunk [a, b) from bars
\* a .. min(b-1+max(strongWindow, buyWindow), n-1), keeping the first b-a rows
\* and concatenating gives exactly the rows of the single run; a chunk result
\* is a function of the input bars alone, so the order in which the workers
\* run does not enter.
C11_ChunkedEqualsSingleRun ==
  (pc = "returned" /\ StrictlyAscending(out)) =>
    \A C \in SUBSET (1..(Len(out) - 1)) :
      Assembled(Bars(out), C, 0, args) = { out }

\* a three-row series cut after every row, where row 0 is labelled 1 by a
\* bar of the next chunk but one and row 1 is labelled 0
C11_Witness ==
  /\ pc = "returned"
  /\ Len(out) = 3
  /\ StrictlyAscending(out)
  /\ args.buy_days = 2
  /\ out[1].close = 100 /\ out[2].close = 100
  /\ out[2].high = 118 /\ out[3].high = 125
  /\ out[1].buy_label = 1
  /\ out[1].buystrong_label = 0
  /\ Assembled(Bars(out), {1, 2}, 0, args) = { out }

\* C16: when strongThreshold >= buyThreshold and strongWindow <= buyWindow,
\* every row with strong label 1 has buy label 1; put the other way, a row
\* with strong label 1 and buy label 0 occurs only when buyThreshold >
\* strongThreshold or buyWindow < strongWindow.
C16_StrongImpliesBuy ==
  pc = "returned" =>
    \A i \in Rows(out) :
      (out[i + 1].buystrong_label = 1 /\ out[i + 1].buy_label = 0) =>
        \/ args.buy_threshold > args.strong_buy_threshold
        \/ args.buy_days < args.strong_buy_days

\* with thresholds 25/18 and windows 1/2 a row has both labels and another
\* row has the buy label only
C16_Witness ==
  /\ pc = "returned"
  /\ args.strong_buy_threshold = 25 /\ args.buy_threshold = 18
  /\ args.strong_buy_days = 1 /\ args.buy_days = 2
  /\ \E i \in Rows(out) : out[i + 1].buystrong_label = 1 /\ out[i + 1].buy_label = 1
  /\ \E i \in Rows(out) : out[i + 1].buystrong_label = 0 /\ out[i + 1].buy_label = 1

\* C15: generate_labels_vectorized returns the rows of generate_labels, in
\* the same order and with identical labels, for every series and parameters.
C15_VectorizedEquivalent ==
  pc = "returned_vectorized" => out_vec = out

\* both functions have returned a three-row frame in which the two labels of
\* a row differ
C15_Witness ==
  /\ pc = "returned_vectorized"
  /\ Len(out_vec) = 3
  /\ \E i \in Rows(out_vec) :
        out_vec[i + 1].buystrong_label = 0 /\ out_vec[i + 1].buy_label = 1
  /\ \E i \in Rows(out_vec) :
        out_vec[i + 1].buystrong_label = 1 /\ out_vec[i + 1].buy_label = 1

\* the four prices of a row are present
PricesPresent(row) ==
  ~isna(row.open) /\ ~isna(row.high) /\ ~isna(row.low) /\ ~isna(row.close)

\* the largest and the smallest of four numbers
Max4(row) ==
  CHOOSE x \in {row.open, row.high, row.low, row.close} :
    \A y \in {row.open, row.high, row.low, row.close} : y <= x

Min4(row) ==
  CHOOSE x \in {row.open, row.high, row.low, row.close} :
    \A y \in {row.open, row.high, row.low, row.close} : x <= y

\* C12 (as stated): with the default options, every bar with four prices
\* present after gap filling comes out with high = max and low = min of its
\* open, high, low and close as they were before the adjustment.
C12_HighIsMaxLowIsMin ==
  (pre_pc = "returned" /\ options = DefaultOptions) =>
    \A k \in 1..Len(df_clean) :
      PricesPresent(df_filled[k]) =>
        /\ df_clean[k].high = Max4(df_filled[k])
        /\ df_clean[k].low = Min4(df_filled[k])

\* C13: every returned bar with four prices present has low <= open <= high
\* and low <= close <= high, whatever the raw input and the options, and its
\* open and close are the ones it had after gap filling.
C13_PricesWithinLowHigh ==
  pre_pc = "returned" =>
    /\ Len(df_clean) = Len(df_filled)
    /\ \A k \in 1..Len(df_clean) :
         /\ df_clean[k].open = df_filled[k].open
         /\ df_clean[k].close = df_filled[k].close
         /\ PricesPresent(df_clean[k]) =>
              /\ df_clean[k].low <= df_clean[k].open
              /\ df_clean[k].open <= df_clean[k].high
              /\ df_clean[k].low <= df_clean[k].close
              /\ df_clean[k].close <= df_clean[k].high

\* a returned frame with a bar whose raw high was below and a bar whose raw
\* low was above the other prices, both adjusted
C13_Witness ==
  /\ pre_pc = "returned"
  /\ \E k \in 1..Len(df_clean) :
        /\ PricesPresent(df_filled[k])
        /\ df_filled[k].high < df_filled[k].close
        /\ df_clean[k].high = df_filled[k].open
  /\ \E k \in 1..Len(df_clean) :
        /\ PricesPresent(df_filled[k])
        /\ df_filled[k].low > df_filled[k].open
        /\ df_clean[k].low = df_filled[k].close

\* the trading dates of the raw input: the date cells that are dates
TradingDates(raw) ==
  { raw[k].date : k \in { j \in 1..Len(raw) : raw[j].date # Text } }

\* the position in the raw input of the first bar of trading date d
EarliestSeen(raw, d) ==
  CHOOSE i \in { raw[k].raw_index : k \in { j \in 1..Len(raw) : raw[j].date = d } } :
    \A k \in 1..Len(raw) : raw[k].date = d => i <= raw[k].raw_index

\* C14 (as stated): with the default options the returned frame has strictly
\* increasing dates, exactly one bar for every distinct trading date of the
\* raw input and no other bar, and the bar of a date is the one seen first in
\* the raw input.
C14_OneBarPerDateEarliestKept ==
  (pre_pc = "returned" /\ options = DefaultOptions) =>
    /\ \A i, j \in 1..Len(df_clean) :
         i < j => /\ df_clean[i].date # NaT
                  /\ df_clean[j].date # NaT
                  /\ df_clean[i].date < df_clean[j].date
    /\ Len(df_clean) = Cardinality(TradingDates(raw_df))
    /\ \A k \in 1..Len(df_clean) :
         /\ df_clean[k].date \in TradingDates(raw_df)
         /\ df_clean[k].raw_index = EarliestSeen(raw_df, df_clean[k].date)

\* C17 (as stated): when a usable refresh token is configured, auth_refresh
\* answers it with an HTTP error, email and password are configured, and
\* auth_user and auth_refresh with a fresh token would succeed, the call
\* obtains a fresh refresh token, retries auth_refresh with it and returns
\* the idToken.
C17_FallsBackToEmailAndPassword ==
  ( /\ auth_pc \in {"returned", "raised"}
    /\ UseRefreshToken(env.JQUANTS_REFRESH_TOKEN)
    /\ server.stored = "HTTPError"
    /\ env.JQUANTS_EMAIL # "" /\ env.JQUANTS_PASSWORD # ""
    /\ server.auth_user = "refreshToken"
    /\ server.fresh = "idToken" ) =>
      /\ auth_pc = "returned"
      /\ result = IdToken
      /\ sent = << <<"auth_refresh", CleanToken(env.JQUANTS_REFRESH_TOKEN)>>,
                   <<"auth_user", <<>>>>,
                   <<"auth_refresh", FreshToken>> >>

====
